---- MODULE Spec2Model ----
(***************************************************************************)
(* Connect-Four front end: the zustand UI store (store.ts), the engine     *)
(* bridge (Interface.tsx: invoke-style commands, listen-style              *)
(* notifications) and the views that use them (Cell, Column, Playfield,    *)
(* BalanceOfPower, StartSidebar, NewGameModal).                            *)
(***************************************************************************)
EXTENDS Integers, Sequences, FiniteSets, TLC

VARIABLES
    store,      \* the zustand state: message, controlsEnabled, appState, openModal
    direct,     \* history: setControlsEnabled was called since the last changeOpenModal
    cmds,       \* commands handed to invoke() and not yet settled, in issue order
    cells,      \* per Cell view: its useState pair (state, winning)
    latest,     \* history, per Cell view: per field, the last non-null value notified
                \* for its coordinate since the engine first registered the view
    bop,        \* BalanceOfPower's useState value
    mounted,    \* views whose component instance is currently mounted
    subs,       \* every listen() registration made by an effect, in creation order
    settled,    \* history: the command settled last, with its outcome
    stale,      \* history: a callback was invoked after its effect's cleanup had run
    lastOp      \* history: the setter called last by the harness of StoreSpec or by
                \* the level input, with its argument

vars == <<store, direct, cmds, settled, cells, latest, bop, mounted, subs, stale, lastOp>>

----------------------------------------------------------------------------
(* store.ts: enumerations *)

AppState_Start == 0
AppState_Playing == 1
AppState_Finished == 2
AppStateValues == {AppState_Start, AppState_Playing, AppState_Finished}

OpenModal_None == 0
OpenModal_NewGame == 1
OpenModalValues == {OpenModal_None, OpenModal_NewGame}

WelcomeMessage == "Welcome to Connect Four!"

(* Inputs of the setters.  The fields are typed `number`, so the harness   *)
(* also passes one value outside each enumeration.                         *)
PhaseInputs == AppStateValues \cup {3}
ModalInputs == OpenModalValues \cup {2}
ErrorTexts == {"engine busy", "column full"}
MessageInputs == ErrorTexts \cup {""}

----------------------------------------------------------------------------
(* store.ts: the store *)

InitialState_ControlsOff ==
    [message |-> WelcomeMessage,
     controlsEnabled |-> FALSE,
     appState |-> AppState_Start,
     openModal |-> OpenModal_None]

\* create(...) initial state
InitialState ==
    [message |-> WelcomeMessage,
     controlsEnabled |-> TRUE,
     appState |-> AppState_Start,
     openModal |-> OpenModal_None]

\* zustand set(partial): Object.assign({}, state, partial)
Merge(state, partial) ==
    [f \in DOMAIN state |-> IF f \in DOMAIN partial THEN partial[f] ELSE state[f]]

changeMessage_SkipsEmpty(state, newMessage) ==
    IF newMessage = "" THEN state ELSE Merge(state, [message |-> newMessage])

changeMessage(state, newMessage) == Merge(state, [message |-> newMessage])

setControlsEnabled(state, enabled) == Merge(state, [controlsEnabled |-> enabled])

changeAppState_ForwardOnly(state, newAppState) ==
    IF newAppState < state.appState THEN state
    ELSE Merge(state, [appState |-> newAppState])

changeAppState(state, newAppState) == Merge(state, [appState |-> newAppState])

changeOpenModal_Uncoupled(state, newOpenModal) ==
    Merge(state, [openModal |-> newOpenModal])

changeOpenModal_NeverReenables(state, newOpenModal) ==
    LET written == IF newOpenModal # OpenModal_None
                   THEN [state EXCEPT !.controlsEnabled = FALSE]
                   ELSE state
    IN  Merge(written, [openModal |-> newOpenModal])

\* the updater writes controlsEnabled on the current state object and returns
\* {openModal}; set() then merges the partial over that same object
changeOpenModal(state, newOpenModal) ==
    LET written == IF newOpenModal # OpenModal_None
                   THEN [state EXCEPT !.controlsEnabled = FALSE]
                   ELSE [state EXCEPT !.controlsEnabled = TRUE]
    IN  Merge(written, [openModal |-> newOpenModal])


----------------------------------------------------------------------------
(* Interface.tsx and Cell.tsx: enumerations; store.ts: board size *)

WIDTH == 7
HEIGHT == 6

CellState_Blank == 0
CellState_P1 == 1
CellState_P2 == -1

State_Blank == 0
State_P1 == 1
State_P2 == -1

GameState_Blank == 0
GameState_Running == 1
GameState_Finished == 2
GameState_Calculating == 3

(* Bounds of the model. *)
GridCols == 2       \* columns whose first Cell view is tracked
MaxSubs == 2        \* listen() registrations made in one behaviour
MaxInFlight == 2    \* commands awaiting their outcome at one time

(* A payload field that may be null is <<>> (null) or <<v>>. *)
Null == <<>>
Some(v) == <<v>>

(* store.ts: what the views find in the store *)

\* the functions of the object create() builds
StoreSetters == {"changeMessage", "setControlsEnabled", "changeAppState", "changeOpenModal"}

\* useStore(state => state.level): reading a property the state object does
\* not have gives undefined (Null)
stateLevel(state) == IF "level" \in DOMAIN state THEN Some(state["level"]) ELSE Null

----------------------------------------------------------------------------
(* The view tree: Playfield renders Column(col) for col in 0..WIDTH-1, and  *)
(* Column renders Cell(row = HEIGHT-1-i, col) for i in 0..HEIGHT-1.  The    *)
(* model tracks the first Cell (i = 0) of the first GridCols columns.      *)

ColumnCells(col) == {<<"Cell", HEIGHT - 1 - i, col>> : i \in {0}}
CellViews == UNION {ColumnCells(col) : col \in 0..(GridCols - 1)}
PlayfieldView == <<"Playfield">>
BalanceView == <<"BalanceOfPower">>
Views == CellViews \cup {PlayfieldView, BalanceView}

Rows == 0..(HEIGHT - 1)
Cols == 0..(WIDTH - 1)

\* position of a view's effect in a commit: React runs the effects of one
\* commit in tree order, children before their parent.  MainFrame renders
\* the sidebar (with BalanceOfPower) before the Playfield.
EffectOrder(view) ==
    IF view = BalanceView THEN 0
    ELSE IF view = PlayfieldView THEN 1 + WIDTH * HEIGHT
    ELSE 1 + view[3] * HEIGHT + (HEIGHT - 1 - view[2])

----------------------------------------------------------------------------
(* Interface.tsx: notification topics *)

Digit(d) ==
    CASE d = 0 -> "0" [] d = 1 -> "1" [] d = 2 -> "2" [] d = 3 -> "3"
      [] d = 4 -> "4" [] d = 5 -> "5" [] d = 6 -> "6" [] d = 7 -> "7"
      [] d = 8 -> "8" [] d = 9 -> "9"

RECURSIVE Decimal(_)
\* string + number for a non-negative integer
Decimal(n) == IF n < 10 THEN Digit(n) ELSE Decimal(n \div 10) \o Digit(n % 10)

CellTopic_RowOnly(row, col) == "updateCell-" \o Decimal(row)

\* 'updateCell-' + row + '-' + col
CellTopic(row, col) == "updateCell-" \o Decimal(row) \o "-" \o Decimal(col)
StateTopic == "updateState"
BalanceTopic == "updateBalance"

\* the topic the effect of a view listens on
TopicOf(view) ==
    IF view[1] = "Cell" THEN CellTopic(view[2], view[3])
    ELSE IF view = PlayfieldView THEN StateTopic
    ELSE BalanceTopic

----------------------------------------------------------------------------
(* Notification handlers *)

CellPayloads ==
    [state : {Null, Some(CellState_Blank), Some(CellState_P1), Some(CellState_P2)},
     winning : {Null, Some(TRUE), Some(FALSE)}]

StatePayloads ==
    [state : {GameState_Blank, GameState_Running, GameState_Finished,
              GameState_Calculating},
     winner : {Null, Some(State_Blank), Some(State_P1), Some(State_P2), Some(2)}]

BalancePayloads == [value : {Null, Some(0), Some(100)}]

\* Cell.tsx: useState(State.Blank), useState(false)
InitialCell == [state |-> State_Blank, winning |-> FALSE]

\* Cell.tsx: the callback given to onUpdateCell
onCellUpdate(cell, payload) ==
    [state |-> IF payload.state # Null THEN payload.state[1] ELSE cell.state,
     winning |-> IF payload.winning # Null THEN payload.winning[1] ELSE cell.winning]

onStateUpdate_MirrorsEngine(state, payload) ==
    IF payload.state = GameState_Finished
    THEN LET finished == changeAppState(state, AppState_Finished)
         IN  IF payload.winner = Some(State_Blank)
             THEN changeMessage(finished, "draw!")
             ELSE IF payload.winner = Some(State_P1)
             THEN changeMessage(finished, "Player 1 wins!")
             ELSE IF payload.winner = Some(State_P2)
             THEN changeMessage(finished, "Player 2 wins!")
             ELSE finished
    ELSE IF payload.state = GameState_Calculating
    THEN changeMessage(state, "thinking...")
    ELSE IF payload.state = GameState_Blank
    THEN changeAppState(changeMessage(state, ""), AppState_Start)
    ELSE changeMessage(state, "")

onStateUpdate_NullWinnerClears(state, payload) ==
    IF payload.state = GameState_Finished
    THEN LET finished == changeAppState(state, AppState_Finished)
         IN  IF payload.winner = Some(State_Blank)
             THEN changeMessage(finished, "draw!")
             ELSE IF payload.winner = Some(State_P1)
             THEN changeMessage(finished, "Player 1 wins!")
             ELSE IF payload.winner = Some(State_P2)
             THEN changeMessage(finished, "Player 2 wins!")
             ELSE changeMessage(finished, "")
    ELSE IF payload.state = GameState_Calculating
    THEN changeMessage(state, "thinking...")
    ELSE changeMessage(state, "")

\* Playfield.tsx: the callback given to onUpdateState
onStateUpdate(state, payload) ==
    IF payload.state = GameState_Finished
    THEN LET finished == changeAppState(state, AppState_Finished)
         IN  IF payload.winner # Null
             THEN IF payload.winner[1] = State_Blank
                  THEN changeMessage(finished, "draw!")
                  ELSE IF payload.winner[1] = State_P1
                  THEN changeMessage(finished, "Player 1 wins!")
                  ELSE IF payload.winner[1] = State_P2
                  THEN changeMessage(finished, "Player 2 wins!")
                  ELSE finished
             ELSE finished
    ELSE IF payload.state = GameState_Calculating
    THEN changeMessage(state, "thinking...")
    ELSE changeMessage(state, "")

\* BalanceOfPower.tsx: the callback given to onUpdateBalance
onBalanceUpdate(value, payload) ==
    IF payload.value # Null THEN payload.value[1] ELSE value

----------------------------------------------------------------------------
(* Subscriptions: listen() is asynchronous.  The engine registers the       *)
(* handler, then the promise resolves with the unlisten function; calling   *)
(* that function asks the engine to remove the handler.                     *)

\* listen(topic, handler) called by the effect of `view`; torn and tornIn
\* record that the effect's cleanup has run and what it found, calls counts
\* the calls of the unlisten function
listen(view) ==
    [view |-> view, topic |-> TopicOf(view), status |-> "pending",
     torn |-> FALSE, tornIn |-> "", calls |-> 0]

\* f(): the unlisten function is called
callUnlisten(sub) == [sub EXCEPT !.status = "unlistening", !.calls = @ + 1]

\* the effect's cleanup: unlisten.then(f => f())
cleanup(sub) ==
    LET t == [sub EXCEPT !.torn = TRUE, !.tornIn = sub.status]
    IN  IF sub.status = "resolved" THEN callUnlisten(t) ELSE t

onListenResolved_DropsContinuation(sub) == [sub EXCEPT !.status = "resolved"]

\* the listen promise resolves; a continuation attached by cleanup runs
onListenResolved(sub) ==
    LET r == [sub EXCEPT !.status = "resolved"]
    IN  IF r.torn THEN callUnlisten(r) ELSE r

\* the engine delivers to a handler it has registered and not yet removed
Live(sub) == sub.status \in {"registered", "resolved", "unlistening"}

\* registrations an emit on `topic` reaches
Targets(topic) == {i \in DOMAIN subs : subs[i].topic = topic /\ Live(subs[i])}

\* the engine has registered a handler of `view` at some time
Served(view) == \E i \in DOMAIN subs : subs[i].view = view /\ subs[i].status # "pending"

\* the registration made by the latest effect of `view`, 0 if none
CurrentSub(view) ==
    LET own == {i \in DOMAIN subs : subs[i].view = view}
    IN  IF own = {} THEN 0 ELSE CHOOSE i \in own : \A j \in own : j <= i

----------------------------------------------------------------------------
(* Commands: invoke() returns a promise that the engine settles later. *)

\* Interface.tsx playCol: invoke('play_col', {col})
playCol(col) == [cmd |-> "play_col", col |-> col]

\* Interface.tsx newGame: invoke('new_game', {level, startingPlayer})
newGame(level, startingPlayer) ==
    [cmd |-> "new_game", level |-> level, startingPlayer |-> startingPlayer]

Outcomes == {[ok |-> TRUE, msg |-> ""]} \cup {[ok |-> FALSE, msg |-> m] : m \in ErrorTexts}

playColSettled_FixedText(state, outcome) ==
    IF outcome.ok THEN state ELSE changeMessage(state, "error")

\* playCol: .then(_ => {}).catch(onError), onError = changeMessage
playColSettled(state, outcome) ==
    IF outcome.ok THEN state ELSE changeMessage(state, outcome.msg)

newGameSettled_AlwaysPlaying(state, outcome) ==
    IF outcome.ok
    THEN changeAppState(state, AppState_Playing)
    ELSE changeAppState(changeMessage(state, outcome.msg), AppState_Playing)

\* newGame: .then(onSuccess).catch(onError),
\* onSuccess = () => changeAppState(AppState.Playing), onError = changeMessage
newGameSettled(state, outcome) ==
    IF outcome.ok
    THEN changeAppState(state, AppState_Playing)
    ELSE changeMessage(state, outcome.msg)

Remove(seq, i) == [j \in 1..(Len(seq) - 1) |-> IF j < i THEN seq[j] ELSE seq[j + 1]]

----------------------------------------------------------------------------
\* the harness's record of a call: the setter and its argument by type
Called(op, text, flag, num) == [op |-> op, text |-> text, flag |-> flag, num |-> num]

(* Initial state: the store has been created and the tree has rendered;    *)
(* no effect has run and no command has been issued.                       *)
Init ==
    /\ store = InitialState
    /\ direct = FALSE
    /\ cmds = <<>>
    /\ settled = [cmd |-> "", ok |-> TRUE, msg |-> ""]
    /\ cells = [v \in CellViews |-> InitialCell]
    /\ latest = [v \in CellViews |-> InitialCell]
    /\ bop = 0
    /\ mounted = Views
    /\ subs = <<>>
    /\ stale = FALSE
    /\ lastOp = Called("create", "", FALSE, 0)

bridge == <<cmds, settled, cells, latest, bop, mounted, subs, stale>>

----------------------------------------------------------------------------
(* The store driven directly through its four setters. *)

CallChangeMessage(m) ==
    /\ store' = changeMessage(store, m)
    /\ lastOp' = Called("changeMessage", m, FALSE, 0)
    /\ UNCHANGED <<direct, bridge>>

CallSetControlsEnabled(b) ==
    /\ store' = setControlsEnabled(store, b)
    /\ direct' = TRUE
    /\ lastOp' = Called("setControlsEnabled", "", b, 0)
    /\ UNCHANGED bridge

CallChangeAppState(p) ==
    /\ store' = changeAppState(store, p)
    /\ lastOp' = Called("changeAppState", "", FALSE, p)
    /\ UNCHANGED <<direct, bridge>>

CallChangeOpenModal(x) ==
    /\ store' = changeOpenModal(store, x)
    /\ direct' = FALSE
    /\ lastOp' = Called("changeOpenModal", "", FALSE, x)
    /\ UNCHANGED bridge

NextStore ==
    \/ \E m \in MessageInputs : CallChangeMessage(m)
    \/ \E b \in BOOLEAN : CallSetControlsEnabled(b)
    \/ \E p \in PhaseInputs : CallChangeAppState(p)
    \/ \E x \in ModalInputs : CallChangeOpenModal(x)

StoreSpec == Init /\ [][NextStore]_vars

(* C1: immediately after changeOpenModal(x), called in any store state,    *)
(* openModal is x and controlsEnabled is (x = None); both fields change in *)
(* the same step.                                                          *)
ChangeOpenModalCouplesControls ==
    lastOp.op = "changeOpenModal" =>
        /\ store.openModal = lastOp.num
        /\ store.controlsEnabled = (lastOp.num = OpenModal_None)

\* changeOpenModal(NewGame) was called while the phase was not Start
ChangeOpenModalCalled ==
    /\ lastOp.op = "changeOpenModal"
    /\ lastOp.num = OpenModal_NewGame
    /\ store.appState # AppState_Start

(* C2 as stated: in every state reached by any sequence of the four        *)
(* setters, controlsEnabled = (openModal = None).                          *)
ControlsFollowOverlay ==
    store.controlsEnabled = (store.openModal = OpenModal_None)

(* C2 amended: controlsEnabled = (openModal = None) in every state reached *)
(* by the setters in which setControlsEnabled has not been called since    *)
(* the last changeOpenModal (or since creation).                           *)
ControlsFollowOverlayUnlessSetDirectly ==
    ~direct => store.controlsEnabled = (store.openModal = OpenModal_None)

\* an overlay was opened and closed again, other setters ran afterwards
OverlayClosedThenOtherSetters ==
    /\ ~direct
    /\ store.openModal = OpenModal_None
    /\ store.controlsEnabled
    /\ lastOp.op = "changeMessage"
    /\ store.appState = AppState_Finished

(* C8: the store starts with phase Start, no overlay, controls enabled and *)
(* the welcome message, and afterwards changes only in a setter call.      *)
StoreStartsAtDefaults ==
    /\ store = [message |-> "Welcome to Connect Four!", controlsEnabled |-> TRUE,
                appState |-> 0, openModal |-> 0]
    /\ [][store' # store =>
            lastOp'.op \in {"changeMessage", "setControlsEnabled",
                            "changeAppState", "changeOpenModal"}]_vars

\* the created store, before any setter call
StoreJustCreated ==
    /\ lastOp.op = "create"
    /\ store.message = "Welcome to Connect Four!"
    /\ store.controlsEnabled

(* C10: changeAppState(p) sets the phase to p from any phase, for any p,   *)
(* and changes no other field of the store.                                *)
ChangeAppStateIsUnvalidated ==
    [][lastOp'.op = "changeAppState" =>
          /\ store'.appState = lastOp'.num
          /\ store'.message = store.message
          /\ store'.controlsEnabled = store.controlsEnabled
          /\ store'.openModal = store.openModal]_vars

\* the phase was set back to Start with an overlay open and a message set
PhaseSetBackToStart ==
    /\ lastOp.op = "changeAppState"
    /\ lastOp.num = AppState_Start
    /\ store.appState = AppState_Start
    /\ store.openModal = OpenModal_NewGame
    /\ store.message = "engine busy"

(* C11: changeMessage(t), called in any store state, sets the message to   *)
(* t and changes no other field; a second changeMessage(t) right after     *)
(* the first leaves the store as the first left it.                        *)
ChangeMessageReplacesAndIsIdempotent ==
    /\ [](\A t \in MessageInputs :
            changeMessage(changeMessage(store, t), t) = changeMessage(store, t))
    /\ [][lastOp'.op = "changeMessage" =>
            /\ store'.message = lastOp'.text
            /\ store'.controlsEnabled = store.controlsEnabled
            /\ store'.appState = store.appState
            /\ store'.openModal = store.openModal
            /\ (lastOp = lastOp' => store' = store)]_vars

\* the message was cleared by changeMessage("") while an overlay was open
\* and the game had finished
MessageCleared ==
    /\ lastOp.op = "changeMessage"
    /\ lastOp.text = ""
    /\ store.message = ""
    /\ store.openModal = OpenModal_NewGame
    /\ store.appState = AppState_Finished

----------------------------------------------------------------------------
(* User input *)

\* StartSidebar.tsx: the 'new game' button
ClickNewGame ==
    /\ store' = changeOpenModal(store, OpenModal_NewGame)
    /\ direct' = FALSE
    /\ UNCHANGED <<lastOp, bridge>>

ClickStart_KeepsOverlay(startingPlayer) ==
    /\ store.openModal = OpenModal_NewGame
    /\ Len(cmds) < MaxInFlight
    /\ cmds' = Append(cmds, newGame(stateLevel(store), startingPlayer))
    /\ UNCHANGED <<lastOp, settled, store, direct, cells, latest, bop, mounted, subs, stale>>

ClickStart_ClosesWithoutEnabling(startingPlayer) ==
    /\ store.openModal = OpenModal_NewGame
    /\ Len(cmds) < MaxInFlight
    /\ cmds' = Append(cmds, newGame(stateLevel(store), startingPlayer))
    /\ store' = Merge(store, [openModal |-> OpenModal_None])
    /\ direct' = FALSE
    /\ UNCHANGED <<lastOp, settled, cells, latest, bop, mounted, subs, stale>>

\* NewGameModal.tsx: the 'start' button; App renders the modal only while
\* openModal is NewGame
ClickStart(startingPlayer) ==
    /\ store.openModal = OpenModal_NewGame
    /\ Len(cmds) < MaxInFlight
    /\ cmds' = Append(cmds, newGame(stateLevel(store), startingPlayer))
    /\ store' = changeOpenModal(store, OpenModal_None)
    /\ direct' = FALSE
    /\ UNCHANGED <<lastOp, settled, cells, latest, bop, mounted, subs, stale>>

\* NewGameModal.tsx: <LevelRange min={2} max={10}/>
LevelMin == 2
LevelMax == 10
LevelInputs == LevelMin..LevelMax

\* LevelRange.tsx: onChange calls selLevel(Number(value)) with selLevel =
\* state.setLevel.  The store has no such function, so the call throws a
\* TypeError, the handler ends there and the store is as before.  The
\* range input is rendered inside the New Game overlay only.
ChangeLevel(v) ==
    /\ store.openModal = OpenModal_NewGame
    /\ "setLevel" \notin StoreSetters
    /\ store' = store
    /\ lastOp' = Called("setLevel", "", FALSE, v)
    /\ UNCHANGED <<direct, bridge>>

ClickColumn_GatedByControls(col) ==
    /\ store.controlsEnabled
    /\ Len(cmds) < MaxInFlight
    /\ cmds' = Append(cmds, playCol(col))
    /\ UNCHANGED <<lastOp, settled, store, direct, cells, latest, bop, mounted, subs, stale>>

\* Column.tsx: onClick={() => playCol(col, onError)}
ClickColumn(col) ==
    /\ Len(cmds) < MaxInFlight
    /\ cmds' = Append(cmds, playCol(col))
    /\ UNCHANGED <<lastOp, settled, store, direct, cells, latest, bop, mounted, subs, stale>>

----------------------------------------------------------------------------
(* The engine settles a command; the promise chain runs. *)

Settle(i, outcome) ==
    /\ i \in DOMAIN cmds
    /\ store' = IF cmds[i].cmd = "play_col"
                THEN playColSettled(store, outcome)
                ELSE newGameSettled(store, outcome)
    /\ cmds' = Remove(cmds, i)
    /\ settled' = [cmd |-> cmds[i].cmd, ok |-> outcome.ok, msg |-> outcome.msg]
    /\ UNCHANGED <<lastOp, direct, cells, latest, bop, mounted, subs, stale>>

----------------------------------------------------------------------------
(* View lifecycle.  The effects have no dependency list: each render runs   *)
(* the previous effect's cleanup and then the effect again.                 *)

\* first effect of a rendered view, after those of the views of V before it
Effect(V, v) ==
    /\ v \in mounted
    /\ CurrentSub(v) = 0
    /\ \A w \in V : EffectOrder(w) < EffectOrder(v) => CurrentSub(w) # 0
    /\ Len(subs) < MaxSubs
    /\ subs' = Append(subs, listen(v))
    /\ UNCHANGED <<lastOp, settled, store, direct, cmds, cells, latest, bop, mounted, stale>>

Rerender(v) ==
    /\ v \in mounted
    /\ CurrentSub(v) # 0
    /\ Len(subs) < MaxSubs
    /\ subs' = Append([subs EXCEPT ![CurrentSub(v)] = cleanup(@)], listen(v))
    /\ UNCHANGED <<lastOp, settled, store, direct, cmds, cells, latest, bop, mounted, stale>>

Unmount(v) ==
    /\ v \in mounted
    /\ CurrentSub(v) # 0
    /\ subs' = [subs EXCEPT ![CurrentSub(v)] = cleanup(@)]
    /\ mounted' = mounted \ {v}
    /\ UNCHANGED <<lastOp, settled, store, direct, cmds, cells, latest, bop, stale>>

\* the engine registers the handler of a listen() call
BackendRegister(i) ==
    /\ i \in DOMAIN subs
    /\ subs[i].status = "pending"
    /\ subs' = [subs EXCEPT ![i].status = "registered"]
    /\ UNCHANGED <<lastOp, settled, store, direct, cmds, cells, latest, bop, mounted, stale>>

\* the listen() promise resolves with the unlisten function
ResolveListen(i) ==
    /\ i \in DOMAIN subs
    /\ subs[i].status = "registered"
    /\ subs' = [subs EXCEPT ![i] = onListenResolved(@)]
    /\ UNCHANGED <<lastOp, settled, store, direct, cmds, cells, latest, bop, mounted, stale>>

\* the engine removes the handler after the unlisten function was called
BackendUnlisten(i) ==
    /\ i \in DOMAIN subs
    /\ subs[i].status = "unlistening"
    /\ subs' = [subs EXCEPT ![i].status = "removed"]
    /\ UNCHANGED <<lastOp, settled, store, direct, cmds, cells, latest, bop, mounted, stale>>

----------------------------------------------------------------------------
(* Notifications: the engine emits on a topic and every handler registered  *)
(* on it is called with the payload.  Each handler is idempotent for a      *)
(* given payload, so calling it once per reached view equals calling it     *)
(* once per reached registration.                                          *)

StaleCall(targets) == \E i \in targets : subs[i].torn

EmitCell(row, col, payload) ==
    LET targets == Targets(CellTopic(row, col))
        reached == {subs[i].view : i \in targets} \cap mounted
    IN  /\ cells' = [v \in DOMAIN cells |->
                        IF v \in reached THEN onCellUpdate(cells[v], payload)
                        ELSE cells[v]]
        /\ latest' = [v \in DOMAIN latest |->
                        IF v \in mounted /\ TopicOf(v) = CellTopic(row, col) /\ Served(v)
                        THEN [state |-> IF payload.state # Null
                                        THEN payload.state[1] ELSE latest[v].state,
                              winning |-> IF payload.winning # Null
                                          THEN payload.winning[1] ELSE latest[v].winning]
                        ELSE latest[v]]
        /\ stale' = (stale \/ StaleCall(targets))
        /\ UNCHANGED <<lastOp, settled, store, direct, cmds, bop, mounted, subs>>

EmitState(payload) ==
    LET targets == Targets(StateTopic)
    IN  /\ store' = IF targets # {} THEN onStateUpdate(store, payload) ELSE store
        /\ stale' = (stale \/ StaleCall(targets))
        /\ UNCHANGED <<lastOp, settled, direct, cmds, cells, latest, bop, mounted, subs>>

EmitBalance(payload) ==
    LET targets == Targets(BalanceTopic)
        reached == {subs[i].view : i \in targets} \cap mounted
    IN  /\ bop' = IF reached # {} THEN onBalanceUpdate(bop, payload) ELSE bop
        /\ stale' = (stale \/ StaleCall(targets))
        /\ UNCHANGED <<lastOp, settled, store, direct, cmds, cells, latest, mounted, subs>>

----------------------------------------------------------------------------
(* Inputs the model draws: the tracked columns, and the tracked           *)
(* coordinates plus one coordinate outside the tracked window.             *)
TrackedCols == 0..(GridCols - 1)
EmitCoords == {<<v[2], v[3]>> : v \in CellViews} \cup {<<0, WIDTH - 1>>}

Settles == \E i \in 1..MaxInFlight, o \in Outcomes : Settle(i, o)

\* the first subscriptions of the views in V
ListenBy(V) ==
    \/ \E v \in V : Effect(V, v)
    \/ \E i \in 1..MaxSubs : BackendRegister(i)
    \/ \E i \in 1..MaxSubs : ResolveListen(i)

EmitsCell == \E rc \in EmitCoords, p \in CellPayloads : EmitCell(rc[1], rc[2], p)

(* Commands and phase: the sidebar, the New Game overlay and the columns,  *)
(* the outcomes of their commands, and the Playfield's game-state topic.   *)
Next ==
    \/ ClickNewGame
    \/ \E sp \in {CellState_P1, CellState_P2} : ClickStart(sp)
    \/ \E col \in TrackedCols : ClickColumn(col)
    \/ Settles
    \/ ListenBy({PlayfieldView})
    \/ \E p \in StatePayloads : EmitState(p)

Spec == Init /\ [][Next]_vars

\* a step in which the engine settles a command
Settling == Len(cmds') < Len(cmds)
\* a step in which a view issues a command
Issuing == Len(cmds') > Len(cmds)

(* C4: when a newGame command resolves, the phase becomes Playing and      *)
(* nothing else changes; when it is rejected with text m, the message      *)
(* becomes m and the phase and everything else keep their values.  Each    *)
(* command is settled once, so one continuation runs per command.          *)
NewGameRunsOneContinuation ==
    [][Settling /\ settled'.cmd = "new_game" =>
          /\ Len(cmds') = Len(cmds) - 1
          /\ IF settled'.ok
             THEN store' = [store EXCEPT !.appState = AppState_Playing]
             ELSE store' = [store EXCEPT !.message = settled'.msg]]_vars

\* a newGame was rejected after the game had finished: the text is shown
\* and the phase is still Finished
NewGameRejectedAfterFinish ==
    /\ settled.cmd = "new_game"
    /\ ~settled.ok
    /\ store.message = "engine busy"
    /\ store.appState = AppState_Finished

\* a step in which a newGame command resolves and its success continuation runs
NewGameSucceeds == Settling /\ settled'.cmd = "new_game" /\ settled'.ok

(* C15: the phase starts at Start and changes only when a newGame success  *)
(* continuation runs (to Playing) or the Playfield handles a Finished      *)
(* game-state notification (to Finished); each of the two events leaves    *)
(* its phase behind, so the phase is that of the event processed last.     *)
(* Clicks, rejected commands, playColumn outcomes and other notifications  *)
(* leave the phase alone, and the phase never returns to Start.            *)
PhaseFollowsLastEvent ==
    /\ store.appState = AppState_Start
    /\ [][/\ NewGameSucceeds => store'.appState = AppState_Playing
          /\ Issuing \/ (Settling /\ ~NewGameSucceeds) =>
                  store'.appState = store.appState
          /\ store.appState # AppState_Start => store'.appState # AppState_Start
          /\ cmds' = cmds /\ Targets(StateTopic) # {}
                         /\ store'.appState # AppState_Finished =>
                  \A p \in StatePayloads :
                      p.state = GameState_Finished => ~EmitState(p)
          /\ store'.appState # store.appState =>
                  \/ NewGameSucceeds
                  \/ /\ store'.appState = AppState_Finished
                     /\ Targets(StateTopic) # {}
                     /\ \E p \in StatePayloads :
                            p.state = GameState_Finished /\ EmitState(p)]_vars

\* a game was finished with Player 1 winning and a new game was started
\* afterwards: the phase is Playing and the old message still shows
PlayingAgainAfterFinish ==
    /\ settled.cmd = "new_game"
    /\ settled.ok
    /\ store.appState = AppState_Playing
    /\ store.message = "Player 1 wins!"

(* C16: the step that issues newGame also closes the overlay and enables   *)
(* the controls, whatever becomes of the command; from then on the overlay *)
(* is None with the controls enabled until the 'new game' button reopens   *)
(* it; and the step that settles a newGame command (phase to Playing, or   *)
(* the failure text into the message) is a later step that finds a command *)
(* issued that way and leaves overlay and controls as they are.            *)
StartClosesOverlayBeforeOutcome ==
    /\ [](store.openModal = OpenModal_None => store.controlsEnabled)
    /\ [][/\ Issuing /\ cmds'[Len(cmds')].cmd = "new_game" =>
                  /\ store.openModal = OpenModal_NewGame
                  /\ store'.openModal = OpenModal_None
                  /\ store'.controlsEnabled
                  /\ store'.appState = store.appState
                  /\ store'.message = store.message
          /\ store.openModal = OpenModal_None /\ store'.openModal # OpenModal_None =>
                  ClickNewGame
          /\ Settling /\ settled'.cmd = "new_game" =>
                  /\ ~Issuing
                  /\ \E i \in DOMAIN cmds : cmds[i].cmd = "new_game"
                  /\ store'.openModal = store.openModal
                  /\ store'.controlsEnabled = store.controlsEnabled]_vars

\* the start button was clicked and the command was rejected afterwards:
\* the text shows, the overlay is closed and the controls are enabled
StartedThenRejected ==
    /\ settled.cmd = "new_game"
    /\ ~settled.ok
    /\ cmds = <<>>
    /\ store.message = "engine busy"
    /\ store.openModal = OpenModal_None
    /\ store.controlsEnabled

(* C5 as stated: issuing a command (playColumn or newGame) leaves message, *)
(* phase, overlay and controls-enabled as they were, so they stay at their *)
(* pre-command values while the command is unresolved.                     *)
IssuingKeepsStore == [][Issuing => store' = store]_vars

(* C5 amended: issuing a command leaves message and phase as they were;    *)
(* playColumn also leaves overlay and controls-enabled as they were, while *)
(* the start button that issues newGame closes the overlay and enables the *)
(* controls in the same handler.  Nothing but the command's outcome, a     *)
(* further user action or a notification changes the store afterwards.     *)
IssuingKeepsMessageAndPhase ==
    [][Issuing =>
          /\ store'.message = store.message
          /\ store'.appState = store.appState
          /\ IF cmds'[Len(cmds')].cmd = "play_col"
             THEN store' = store
             ELSE /\ store.openModal = OpenModal_NewGame
                  /\ store'.openModal = OpenModal_None
                  /\ store'.controlsEnabled]_vars

\* a newGame and a playColumn are both unresolved, no command has been
\* settled, and the overlay is closed
TwoCommandsUnresolved ==
    /\ Len(cmds) = 2
    /\ cmds[1].cmd = "new_game"
    /\ cmds[2].cmd = "play_col"
    /\ settled.cmd = ""
    /\ store.openModal = OpenModal_None
    /\ store.message = WelcomeMessage

(* Phase and message: the sidebar and the New Game overlay, the outcomes   *)
(* of newGame, and the Playfield's game-state topic.                       *)
NextPhase ==
    \/ ClickNewGame
    \/ \E sp \in {CellState_P1, CellState_P2} : ClickStart(sp)
    \/ Settles
    \/ ListenBy({PlayfieldView})
    \/ \E p \in StatePayloads : EmitState(p)

PhaseSpec == Init /\ [][NextPhase]_vars

\* what the Playfield's handler is to make of `state` for a notification
HandledGameState(state, p) ==
    IF p.state = GameState_Finished
    THEN [message |-> CASE p.winner = Some(0) -> "draw!"
                        [] p.winner = Some(1) -> "Player 1 wins!"
                        [] p.winner = Some(-1) -> "Player 2 wins!"
                        [] OTHER -> state.message,
          controlsEnabled |-> state.controlsEnabled,
          appState |-> AppState_Finished,
          openModal |-> state.openModal]
    ELSE [message |-> IF p.state = GameState_Calculating THEN "thinking..." ELSE "",
          controlsEnabled |-> state.controlsEnabled,
          appState |-> state.appState,
          openModal |-> state.openModal]

(* C14: the Playfield's handler of a game-state notification.  Finished:   *)
(* the phase becomes Finished and the message 'draw!' (winner 0),          *)
(* 'Player 1 wins!' (1), 'Player 2 wins!' (-1), unchanged for a null or    *)
(* any other winner.  Calculating: the message becomes 'thinking...', the  *)
(* phase is unchanged.  Any other state: the message becomes '', the phase *)
(* is unchanged.  Overlay and controls-enabled are never changed.  This is *)
(* what the handler computes in every reachable store state, and what a    *)
(* notification reaching the subscribed Playfield does to the store.       *)
(* (A notification leaves the unresolved commands alone, so only steps     *)
(* that change the store and not the commands are matched against it.)     *)
PlayfieldHandlesGameState ==
    /\ [](\A p \in StatePayloads : onStateUpdate(store, p) = HandledGameState(store, p))
    /\ [][store' # store /\ cmds' = cmds /\ Targets(StateTopic) # {} =>
            \A p \in StatePayloads :
                EmitState(p) => store' = HandledGameState(store, p)]_vars

\* the subscribed Playfield was notified that Player 2 has won while the
\* New Game overlay was open: the overlay is still open
FinishedWhileOverlayOpen ==
    /\ Targets(StateTopic) # {}
    /\ store.appState = AppState_Finished
    /\ store.message = "Player 2 wins!"
    /\ store.openModal = OpenModal_NewGame
    /\ ~store.controlsEnabled

(* The New Game overlay: the level input, the start button and the        *)
(* outcomes of newGame.                                                   *)
NextLevel ==
    \/ ClickNewGame
    \/ \E v \in LevelInputs : ChangeLevel(v)
    \/ \E sp \in {CellState_P1, CellState_P2} : ClickStart(sp)
    \/ Settles

LevelSpec == Init /\ [][NextLevel]_vars

(* C12: after the level input has set the difficulty to v, the store's     *)
(* difficulty is v, whatever v is; and a newGame command carries the       *)
(* difficulty the store holds when it is issued.                           *)
DifficultyIsStoredAndSent ==
    /\ [](lastOp.op = "setLevel" => stateLevel(store) = Some(lastOp.num))
    /\ [][Issuing /\ cmds'[Len(cmds')].cmd = "new_game" =>
            /\ cmds'[Len(cmds')].level = stateLevel(store)
            /\ lastOp.op = "setLevel" =>
                    cmds'[Len(cmds')].level = Some(lastOp.num)]_vars

(* The board: column clicks and their outcomes, the sidebar's button, and *)
(* the topics of the Cell views of the first column.                      *)
NextBoard ==
    \/ ClickNewGame
    \/ \E col \in TrackedCols : ClickColumn(col)
    \/ Settles
    \/ ListenBy(ColumnCells(0))
    \/ EmitsCell

BoardSpec == Init /\ [][NextBoard]_vars

(* C6: when playColumn is rejected with text m, the message becomes m and  *)
(* phase, overlay, controls-enabled and every cell view are unchanged;     *)
(* a column click is possible in every state (up to the model's bound on   *)
(* unresolved commands).                                                    *)
PlayColumnFailureOnlySetsMessage ==
    /\ [](\A col \in TrackedCols :
            Len(cmds) < MaxInFlight => ENABLED ClickColumn(col))
    /\ [][Settling /\ settled'.cmd = "play_col" /\ ~settled'.ok =>
            /\ store' = [store EXCEPT !.message = settled'.msg]
            /\ cells' = cells
            /\ bop' = bop]_vars

\* a playColumn was rejected while the overlay was open and a cell was
\* occupied; another command has been issued since
PlayColumnRejected ==
    /\ settled.cmd = "play_col"
    /\ ~settled.ok
    /\ store.message = "column full"
    /\ store.openModal = OpenModal_NewGame
    /\ \E v \in ColumnCells(0) : cells[v].state = State_P1
    /\ cmds # <<>>

(* The columns in every store state: the setters put the store into any   *)
(* phase, overlay and controls-enabled, the columns are clicked and their  *)
(* commands settled, and the first column's Cell view is notified.        *)
NextColumn ==
    \/ \E p \in AppStateValues : CallChangeAppState(p)
    \/ \E b \in BOOLEAN : CallSetControlsEnabled(b)
    \/ \E x \in OpenModalValues : CallChangeOpenModal(x)
    \/ \E col \in TrackedCols : ClickColumn(col)
    \/ Settles
    \/ ListenBy(ColumnCells(0))
    \/ \E v \in ColumnCells(0), p \in CellPayloads : EmitCell(v[2], v[3], p)

ColumnSpec == Init /\ [][NextColumn]_vars

(* C17: in every store state a click on column c is possible and issues    *)
(* exactly one play_col command carrying c; the step that issues it leaves *)
(* every store field, every cell view and the balance view as they were.  *)
(* (Possible: up to the model's bound on unresolved commands.)             *)
ColumnClickIsUngated ==
    /\ [](\A col \in TrackedCols :
            Len(cmds) < MaxInFlight => ENABLED ClickColumn(col))
    /\ [][Issuing =>
            /\ \A col \in TrackedCols :
                  ClickColumn(col) =>
                      cmds'[Len(cmds')] = [cmd |-> "play_col", col |-> col]
            /\ cmds'[Len(cmds')].cmd = "play_col" =>
                  /\ Len(cmds') = Len(cmds) + 1
                  /\ \A i \in DOMAIN cmds : cmds'[i] = cmds[i]
                  /\ cmds'[Len(cmds')].col \in TrackedCols
                  /\ store' = store
                  /\ cells' = cells
                  /\ bop' = bop]_vars

\* two columns were clicked with the controls disabled, no overlay open,
\* the game finished and a cell occupied; neither command has been settled
ClickedWithControlsDisabled ==
    /\ cmds = <<playCol(1), playCol(0)>>
    /\ settled.cmd = ""
    /\ lastOp.op = "setControlsEnabled"
    /\ ~store.controlsEnabled
    /\ store.openModal = OpenModal_None
    /\ store.appState = AppState_Finished
    /\ \E v \in ColumnCells(0) : cells[v].state = State_P2

(* Notifications: the Cell views and the Playfield subscribe, the engine  *)
(* emits on the cell topics and on the game-state topic.                  *)
NextNotify ==
    \/ ListenBy(CellViews \cup {PlayfieldView})
    \/ EmitsCell
    \/ \E p \in StatePayloads : EmitState(p)

NotifySpec == Init /\ [][NextNotify]_vars

(* C7: a notification for (r, c) leaves the view of every other coordinate *)
(* and the store unchanged; no two coordinates of the 6x7 grid share a     *)
(* topic.  (Only a step that changes a cell view or the store can break    *)
(* the frame, so only those steps are matched against the notifications.)  *)
CellNotificationIsLocal ==
    /\ \A r1, r2 \in Rows, c1, c2 \in Cols :
            CellTopic(r1, c1) = CellTopic(r2, c2) => r1 = r2 /\ c1 = c2
    /\ [][cells' # cells \/ store' # store =>
            \A rc \in EmitCoords, p \in CellPayloads :
                EmitCell(rc[1], rc[2], p) =>
                    /\ \A v \in CellViews :
                          <<v[2], v[3]>> # rc => cells'[v] = cells[v]
                    /\ store' = store]_vars

\* two views are subscribed, one shows Player 2 on a winning cell and the
\* other is still blank; the store is unchanged
OneCellUpdated ==
    \E v, w \in CellViews :
        /\ v # w
        /\ store = InitialState
        /\ CurrentSub(v) # 0 /\ Live(subs[CurrentSub(v)])
        /\ CurrentSub(w) # 0 /\ Live(subs[CurrentSub(w)])
        /\ cells[v] = [state |-> State_P2, winning |-> TRUE]
        /\ cells[w] = InitialCell

\* re-render, unmount and the engine's removal for the views in V
ChurnBy(V) ==
    \/ \E v \in V : Rerender(v)
    \/ \E v \in V : Unmount(v)
    \/ \E i \in 1..MaxSubs : BackendUnlisten(i)

(* The subscriptions of the first column's Cell view under re-render and   *)
(* unmount, with the engine emitting on the cell topics.                   *)
NextView == ListenBy(ColumnCells(0)) \/ ChurnBy(ColumnCells(0)) \/ EmitsCell

ViewSpec == Init /\ [][NextView]_vars

(* C3: once the cleanup of a Cell view's effect has run, no notification   *)
(* invokes the callback that effect registered.                            *)
TornDownSubscriptionIsSilent == ~stale

(* C13: a mounted Cell view shows, per field, the last non-null value      *)
(* notified for its coordinate (Blank and false before any): a null field  *)
(* leaves the view's field as it was, and no notification emitted since    *)
(* the view was first registered is lost when the view re-subscribes on a  *)
(* re-render.                                                              *)
CellShowsLatestNotification ==
    \A v \in CellViews \cap mounted : cells[v] = latest[v]

(* The subscriptions of every view (per-cell, game-state, balance) under   *)
(* re-render and unmount, the views' first effects taken in any order.     *)
(* The engine and the promise machinery make                               *)
(* progress: a pending registration is made, its promise resolves, and a   *)
(* requested removal is carried out.                                       *)
NextSubs == (\E v \in Views : ListenBy({v})) \/ ChurnBy(Views)

FairSubsSpec ==
    /\ Init
    /\ [][NextSubs]_vars
    /\ \A i \in 1..MaxSubs :
          /\ WF_vars(BackendRegister(i))
          /\ WF_vars(ResolveListen(i))
          /\ WF_vars(BackendUnlisten(i))

(* C9: the unlisten function of a registration is called at most once and *)
(* only after the cleanup of its effect; and every registration whose      *)
(* effect was cleaned up, also before the registration had resolved, is    *)
(* eventually removed after exactly one such call.                         *)
EverySubscriptionIsCancelled ==
    /\ [](\A i \in DOMAIN subs :
            /\ subs[i].calls <= 1
            /\ subs[i].calls = 1 => subs[i].torn
            /\ subs[i].status \in {"unlistening", "removed"} => subs[i].calls = 1)
    /\ \A i \in 1..MaxSubs :
            (i \in DOMAIN subs /\ subs[i].torn)
                ~> (i \in DOMAIN subs /\ subs[i].status = "removed"
                                       /\ subs[i].calls = 1)

\* a view was unmounted before its registration had been made, and the
\* registration has since been removed
CancelledAfterEarlyUnmount ==
    \E i \in DOMAIN subs :
        /\ subs[i].tornIn = "pending"
        /\ subs[i].status = "removed"
        /\ subs[i].view \notin mounted

====
